---- MODULE Spec2Model ----
(***************************************************************************)
(* Natural-language-to-SQL pipeline of synapse-creaton:                    *)
(*   Model/safety_validator.py      SafetyValidator                        *)
(*   Model/conversation_manager.py  ConversationManager                    *)
(*   Model/sql_generator.py         SQLQueryGenerator                      *)
(*                                                                         *)
(* Strings are sequences of one-character strings, so that find, in,       *)
(* startswith, split, strip and the regular expressions of the source are  *)
(* computed character by character, as Python computes them.               *)
(***************************************************************************)
EXTENDS Integers, Sequences, FiniteSets, TLC

(***************************************************************************)
(* Python str primitives                                                   *)
(***************************************************************************)

\* a string literal as a sequence of characters
Str(s) == [i \in 1..Len(s) |-> SubSeq(s, i, i)]

Lowers == Str("abcdefghijklmnopqrstuvwxyz")
Uppers == Str("ABCDEFGHIJKLMNOPQRSTUVWXYZ")
Digits == Str("0123456789")

ToUpper == [c \in {Lowers[i] : i \in 1..26} |-> Uppers[CHOOSE i \in 1..26 : Lowers[i] = c]]
ToLower == [c \in {Uppers[i] : i \in 1..26} |-> Lowers[CHOOSE i \in 1..26 : Uppers[i] = c]]

IsLetter(c) == c \in DOMAIN ToUpper \/ c \in DOMAIN ToLower
IsDigit(c) == c \in {Digits[i] : i \in 1..10}
\* \w of the re module, on ASCII text
IsWordChar(c) == IsLetter(c) \/ IsDigit(c) \/ c = "_"
\* \s of the re module and the whitespace of str.strip / str.split
IsSpace(c) == c \in {" ", "\n", "\t", "\r"}

UpperChar(c) == IF c \in DOMAIN ToUpper THEN ToUpper[c] ELSE c
LowerChar(c) == IF c \in DOMAIN ToLower THEN ToLower[c] ELSE c

\* str.upper() and str.lower()
Upper(s) == [i \in 1..Len(s) |-> UpperChar(s[i])]
Lower(s) == [i \in 1..Len(s) |-> LowerChar(s[i])]

Min(S) == CHOOSE m \in S : \A k \in S : m <= k
Max(S) == CHOOSE m \in S : \A k \in S : m >= k

\* s[a:b] with 0-based, half-open Python indices (0 <= a, b <= len(s))
Slice(s, a, b) == SubSeq(s, a + 1, b)

\* does p occur in s at 0-based position i
MatchAt(s, p, i) == /\ i >= 0
                    /\ i + Len(p) <= Len(s)
                    /\ \A j \in 1..Len(p) : s[i + j] = p[j]

\* the same, ignoring letter case (re.IGNORECASE on a literal)
MatchAtI(s, p, i) == /\ i >= 0
                     /\ i + Len(p) <= Len(s)
                     /\ \A j \in 1..Len(p) : UpperChar(s[i + j]) = UpperChar(p[j])

\* str.find(p): 0-based index of the first occurrence, -1 when absent
Find(s, p) == LET M == {i \in 0..(Len(s) - Len(p)) : MatchAt(s, p, i)}
              IN  IF M = {} THEN -1 ELSE Min(M)

\* p in s
Contains(s, p) == \E i \in 0..(Len(s) - Len(p)) : MatchAt(s, p, i)

\* s.startswith(p) and s.endswith(p)
StartsWith(s, p) == MatchAt(s, p, 0)
EndsWith(s, p) == MatchAt(s, p, Len(s) - Len(p))

\* str.strip()
Strip(s) == LET N == {i \in 1..Len(s) : ~IsSpace(s[i])}
            IN  IF N = {} THEN <<>> ELSE SubSeq(s, Min(N), Max(N))

\* first position >= i (0-based) that is not whitespace, len(s) when none
SkipSpace(s, i) == LET N == {k \in i..(Len(s) - 1) : ~IsSpace(s[k + 1])}
                   IN  IF N = {} THEN Max({i, Len(s)}) ELSE Min(N)

\* set(s.split()): the set of maximal runs of non-whitespace characters
SplitWords(s) ==
    LET starts == {i \in 1..Len(s) : ~IsSpace(s[i]) /\ (i = 1 \/ IsSpace(s[i - 1]))}
        endOf(i) == Min({k \in i..Len(s) : k = Len(s) \/ IsSpace(s[k + 1])})
    IN  {SubSeq(s, i, endOf(i)) : i \in starts}

\* s.split('\n'): the lines of s, in order
SplitLines(s) ==
    LET nl == {i \in 1..Len(s) : s[i] = "\n"}
        cuts == {0} \cup nl
        nextCut(c) == LET later == {k \in nl : k > c}
                      IN  IF later = {} THEN Len(s) + 1 ELSE Min(later)
        RECURSIVE from(_)
        from(c) == IF nextCut(c) = Len(s) + 1
                   THEN <<SubSeq(s, c + 1, Len(s))>>
                   ELSE <<SubSeq(s, c + 1, nextCut(c) - 1)>> \o from(nextCut(c))
    IN  from(0)

\* ' '.join(lines)
RECURSIVE JoinSpace(_)
JoinSpace(lines) == IF lines = <<>> THEN <<>>
                    ELSE IF Len(lines) = 1 THEN lines[1]
                    ELSE lines[1] \o <<" ">> \o JoinSpace(Tail(lines))

\* concatenation of a sequence of strings
RECURSIVE Concat(_)
Concat(parts) == IF parts = <<>> THEN <<>> ELSE Head(parts) \o Concat(Tail(parts))

\* re.sub(pat + r'\s*', '', s): every occurrence of the literal pat, with
\* the whitespace that follows it, is deleted (scanning left to right from
\* position i)
RECURSIVE SubLiteralWs(_, _, _, _)
SubLiteralWs(s, pat, icase, i) ==
    LET M == {k \in i..(Len(s) - Len(pat)) :
                 IF icase THEN MatchAtI(s, pat, k) ELSE MatchAt(s, pat, k)}
    IN  IF M = {} THEN Slice(s, i, Len(s))
        ELSE Slice(s, i, Min(M))
             \o SubLiteralWs(s, pat, icase, SkipSpace(s, Min(M) + Len(pat)))

\* re.sub(pat + r'.*$', '', s, flags=re.IGNORECASE | re.DOTALL): s is cut at
\* the first occurrence of the literal pat
CutAtI(s, pat) == LET M == {i \in 0..(Len(s) - Len(pat)) : MatchAtI(s, pat, i)}
                  IN  IF M = {} THEN s ELSE Slice(s, 0, Min(M))

(***************************************************************************)
(* SafetyValidator (Model/safety_validator.py)                             *)
(***************************************************************************)

DANGEROUS_KEYWORDS ==
    {Str("DROP"), Str("DELETE"), Str("UPDATE"), Str("INSERT"), Str("ALTER"),
     Str("TRUNCATE"), Str("CREATE"), Str("EXEC"), Str("EXECUTE"), Str("GRANT"),
     Str("REVOKE"), Str("MERGE"), Str("REPLACE")}

\* re.sub(r'^\s*--.*?$', '', query, flags=re.MULTILINE): at the start of a
\* line, leading whitespace and a '--' comment are deleted up to the end of
\* the comment's line; the newline itself stays (scanning from position i)
RECURSIVE SubLineComments(_, _)
SubLineComments(s, i) ==
    LET M == {k \in i..(Len(s) - 1) :
                 /\ k = 0 \/ s[k] = "\n"
                 /\ MatchAt(s, <<"-", "-">>, SkipSpace(s, k))}
        j == SkipSpace(s, Min(M))
        eols == {k \in (j + 2)..(Len(s) - 1) : s[k + 1] = "\n"}
    IN  IF M = {} THEN Slice(s, i, Len(s))
        ELSE IF eols = {} THEN Slice(s, i, Min(M))
        ELSE Slice(s, i, Min(M)) \o SubLineComments(s, Min(eols))

\* re.sub(r'/\*.*?\*/', '', s, flags=re.DOTALL): every '/*' that has a
\* closing '*/' is deleted together with the text up to the first closing
RECURSIVE SubBlockComments(_, _)
SubBlockComments(s, i) ==
    LET closeOf(k) == {c \in (k + 2)..(Len(s) - 2) : MatchAt(s, <<"*", "/">>, c)}
        M == {k \in i..(Len(s) - 2) : MatchAt(s, <<"/", "*">>, k) /\ closeOf(k) # {}}
    IN  IF M = {} THEN Slice(s, i, Len(s))
        ELSE Slice(s, i, Min(M)) \o SubBlockComments(s, Min(closeOf(Min(M))) + 2)

\* sqlparse's keyword tables (sqlparse/keywords.py), for the words the
\* validator looks at: the ttype the lexer gives an upper-cased word
DMLWords == {Str("SELECT"), Str("INSERT"), Str("DELETE"), Str("UPDATE"),
             Str("UPSERT"), Str("REPLACE"), Str("MERGE")}
DDLWords == {Str("DROP"), Str("CREATE"), Str("ALTER"), Str("TRUNCATE")}
DCLWords == {Str("GRANT"), Str("REVOKE")}
PlainKeywords == {Str("EXEC"), Str("EXECUTE"), Str("FROM"), Str("WHERE"),
                  Str("TABLE"), Str("AND"), Str("OR"), Str("AS"), Str("IN")}

is_keyword(word) ==
    LET w == Upper(word)
    IN  IF w \in DMLWords THEN "DML"
        ELSE IF w \in DDLWords THEN "DDL"
        ELSE IF w \in DCLWords THEN "DCL"
        ELSE IF w \in PlainKeywords THEN "Keyword"
        ELSE "Name"

\* the words of SQL_REGEX's rule (CASE|IN|VALUES|USING|FROM|AS)\b
EarlyKeywords == {Str("CASE"), Str("IN"), Str("VALUES"), Str("USING"), Str("FROM"), Str("AS")}

\* sqlparse.parse(query) followed by statement.flatten(), over all the
\* statements: the token stream of the lexer (sqlparse/lexer.py with the
\* SQL_REGEX rules in their order), from position i on.  A '--' or '# '
\* comment runs to the end of its line, '/* */' and quoted strings are one
\* token, a word directly followed by '(', followed by '.' or directly
\* preceded by '.' is a Name whatever it spells, any other word gets the
\* ttype of the keyword tables.  Every other character is a token of its
\* own, neither DML nor Keyword; a run of them is kept as one Other token.
\* (The multi-word rules of SQL_REGEX, such as GROUP BY or CREATE OR
\* REPLACE, are not modelled: no text of the model spells them.)
RECURSIVE Lex(_, _)
Lex(s, i) ==
    LET closeOf(k) == {c \in (k + 2)..(Len(s) - 2) : MatchAt(s, <<"*", "/">>, c)}
        quoteOf(k) == {c \in (k + 1)..(Len(s) - 1) : s[c + 1] = "'"}
        starts == {k \in i..(Len(s) - 1) :
                      \/ MatchAt(s, <<"-", "-">>, k)
                      \/ MatchAt(s, <<"#", " ">>, k)
                      \/ (MatchAt(s, <<"/", "*">>, k) /\ closeOf(k) # {})
                      \/ (s[k + 1] = "'" /\ quoteOf(k) # {})
                      \/ IsWordChar(s[k + 1])}
        b == Min(starts)
        c == s[b + 1]
        eols == {k \in b..(Len(s) - 1) : s[k + 1] = "\n"}
        eol == IF eols = {} THEN Len(s) ELSE Min(eols) + 1
        nonword == {k \in b..(Len(s) - 1) : ~IsWordChar(s[k + 1])}
        wend == IF nonword = {} THEN Len(s) ELSE Min(nonword)
        nonkey == {k \in b..(Len(s) - 1) :
                      ~(IsWordChar(s[k + 1]) \/ s[k + 1] \in {"$", "#"})}
        kend == IF nonkey = {} THEN Len(s) ELSE Min(nonkey)
        isEarly == IsLetter(c) /\ Upper(Slice(s, b, wend)) \in EarlyKeywords
        isName == /\ IsLetter(c)
                  /\ \/ MatchAt(s, <<".">>, SkipSpace(s, wend))
                     \/ (b > 0 /\ s[b] = ".")
                     \/ MatchAt(s, <<"(">>, wend)
        gap == IF b > i THEN <<[ttype |-> "Other", value |-> Slice(s, i, b)]>> ELSE <<>>
    IN  IF i >= Len(s) THEN <<>>
        ELSE IF starts = {} THEN <<[ttype |-> "Other", value |-> Slice(s, i, Len(s))]>>
        ELSE gap \o
             (IF MatchAt(s, <<"-", "-">>, b) \/ MatchAt(s, <<"#", " ">>, b)
              THEN <<[ttype |-> "Comment", value |-> Slice(s, b, eol)]>> \o Lex(s, eol)
              ELSE IF ~IsWordChar(c) /\ c # "'"
              THEN <<[ttype |-> "Comment", value |-> Slice(s, b, Min(closeOf(b)) + 2)]>>
                   \o Lex(s, Min(closeOf(b)) + 2)
              ELSE IF c = "'"
              THEN <<[ttype |-> "String", value |-> Slice(s, b, Min(quoteOf(b)) + 1)]>>
                   \o Lex(s, Min(quoteOf(b)) + 1)
              ELSE IF isEarly
              THEN <<[ttype |-> "Keyword", value |-> Slice(s, b, wend)]>> \o Lex(s, wend)
              ELSE IF isName
              THEN <<[ttype |-> "Name", value |-> Slice(s, b, wend)]>> \o Lex(s, wend)
              ELSE <<[ttype |-> is_keyword(Slice(s, b, kend)), value |-> Slice(s, b, kend)]>>
                   \o Lex(s, kend))

\* SafetyValidator._is_safe_statement, on the flattened tokens
_is_safe_statement(tokens) ==
    \A k \in 1..Len(tokens) :
        /\ tokens[k].ttype = "DML" => Upper(tokens[k].value) = Str("SELECT")
        /\ tokens[k].ttype = "Keyword" => Upper(tokens[k].value) \notin DANGEROUS_KEYWORDS

\* SafetyValidator.validate: (is_valid, error_msg)
validate(query) ==
    LET query_clean == Strip(SubBlockComments(SubLineComments(query, 0), 0))
        query_upper == Upper(query_clean)
    IN  IF Strip(query) = <<>>
        THEN [is_valid |-> FALSE, error_msg |-> "Empty query provided"]
        ELSE IF ~StartsWith(query_upper, Str("SELECT"))
        THEN [is_valid |-> FALSE, error_msg |-> "Only SELECT queries are allowed"]
        ELSE IF ~_is_safe_statement(Lex(query_clean, 0))
        THEN [is_valid |-> FALSE, error_msg |-> "Query contains unsafe operations"]
        ELSE IF SplitWords(query_upper) \cap DANGEROUS_KEYWORDS # {}
        THEN [is_valid |-> FALSE, error_msg |-> "Query contains dangerous keywords"]
        ELSE [is_valid |-> TRUE, error_msg |-> ""]

\* dangerous_patterns with the bare keywords in place of the '; ' forms
dangerous_patterns_bare ==
    <<Str("DROP"), Str("DELETE"), Str("UPDATE"), Str("INSERT"),
      Str("UNION SELECT"), Str("1=1"), Str("OR 1=1"), Str("--"), Str("/*"),
      Str("*/")>>

\* the patterns of sanitize_input, in the order the loop tries them
dangerous_patterns ==
    <<Str("; DROP"), Str("; DELETE"), Str("; UPDATE"), Str("; INSERT"),
      Str("UNION SELECT"), Str("1=1"), Str("OR 1=1"), Str("--"), Str("/*"),
      Str("*/")>>

\* sanitize_input looking for the patterns in the input as typed
sanitize_input_as_typed(user_input) ==
    LET hits == {k \in 1..Len(dangerous_patterns) : Contains(user_input, dangerous_patterns[k])}
    IN  IF hits # {}
        THEN [raised |-> TRUE, value |-> dangerous_patterns[Min(hits)]]
        ELSE [raised |-> FALSE, value |-> Strip(user_input)]

\* SafetyValidator.sanitize_input: raises ValueError naming the first pattern
\* found in the upper-cased input, otherwise returns the stripped input
sanitize_input(user_input) ==
    LET input_upper == Upper(user_input)
        hits == {k \in 1..Len(dangerous_patterns) : Contains(input_upper, dangerous_patterns[k])}
    IN  IF hits # {}
        THEN [raised |-> TRUE, value |-> dangerous_patterns[Min(hits)]]
        ELSE [raised |-> FALSE, value |-> Strip(user_input)]

(***************************************************************************)
(* SQLQueryGenerator._extract_sql (Model/sql_generator.py)                 *)
(***************************************************************************)

USER_QUESTION == Str("USER QUESTION:")
SQL_QUERY == Str("SQL QUERY:")

\* '$' without re.MULTILINE: the end of the string, or the position of a
\* final newline
AtEnd(s, k) == k = Len(s) \/ (k = Len(s) - 1 /\ s[Len(s)] = "\n")

\* some literal of the set matches at position k, ignoring case
AnyAtI(s, pats, k) == \E p \in pats : MatchAtI(s, p, k)

\* (?:\n\n|\n[A-Z]|USER QUESTION:|SQL QUERY:|$) with re.IGNORECASE
LabelStop(s, k) ==
    \/ MatchAt(s, <<"\n", "\n">>, k)
    \/ (k + 1 < Len(s) /\ s[k + 1] = "\n" /\ IsLetter(s[k + 2]))
    \/ AnyAtI(s, {USER_QUESTION, SQL_QUERY}, k)
    \/ AtEnd(s, k)

\* (?:\n\n|\n(?:Please|Note|Explanation|This|The query|USER QUESTION|SQL QUERY)
\*    |USER QUESTION:|SQL QUERY:|$) with re.IGNORECASE
SelectStop(s, k) ==
    \/ MatchAt(s, <<"\n", "\n">>, k)
    \/ (MatchAt(s, <<"\n">>, k) /\
        AnyAtI(s, {Str("Please"), Str("Note"), Str("Explanation"), Str("This"),
                   Str("The query"), Str("USER QUESTION"), Str("SQL QUERY")}, k + 1))
    \/ AnyAtI(s, {USER_QUESTION, SQL_QUERY}, k)
    \/ AtEnd(s, k)

\* (?:;|USER QUESTION:|SQL QUERY:|$|\n\n) with re.IGNORECASE
SemicolonStop(s, k) ==
    \/ MatchAt(s, <<";">>, k)
    \/ AnyAtI(s, {USER_QUESTION, SQL_QUERY}, k)
    \/ AtEnd(s, k)
    \/ MatchAt(s, <<"\n", "\n">>, k)

NoMatch == <<"no match">>

\* re.search(r'SQL QUERY:\s*(.*?)(?:...)', text, re.DOTALL | re.IGNORECASE)
\* .group(1): the text after the first label and its whitespace, up to the
\* first stop
LabelMatch(text) ==
    LET M == {p \in 0..(Len(text) - 10) : MatchAtI(text, SQL_QUERY, p)}
        start == SkipSpace(text, Min(M) + 10)
        stop == Min({k \in start..Len(text) : LabelStop(text, k)})
    IN  IF M = {} THEN NoMatch ELSE Slice(text, start, stop)

\* re.search(r'(SELECT\s+.*?)(?:...)', text, re.DOTALL | re.IGNORECASE)
\* .group(1): from the first SELECT that whitespace follows up to the first
\* stop after that whitespace
SelectMatch(text) ==
    LET M == {p \in 0..(Len(text) - 7) :
                 MatchAtI(text, Str("SELECT"), p) /\ IsSpace(text[p + 7])}
        start == SkipSpace(text, Min(M) + 6)
        stop == Min({k \in start..Len(text) : SelectStop(text, k)})
    IN  IF M = {} THEN NoMatch ELSE Slice(text, Min(M), stop)

\* re.search(r'(SELECT.*?)(?:;|USER QUESTION:|SQL QUERY:|$|\n\n)', text,
\* re.DOTALL | re.IGNORECASE).group(1)
SelectSemicolonMatch(text) ==
    LET M == {p \in 0..(Len(text) - 6) : MatchAtI(text, Str("SELECT"), p)}
        stop == Min({k \in (Min(M) + 6)..Len(text) : SemicolonStop(text, k)})
    IN  IF M = {} THEN NoMatch ELSE Slice(text, Min(M), stop)

\* the last resort of the candidate search: from the first SELECT on, cut at
\* the first pattern of the list that occurs
LastResortPatterns ==
    <<Str("\n\nUSER QUESTION:"), Str("\n\nSQL QUERY:"), Str("\nUSER QUESTION:"),
      Str("\nSQL QUERY:"), Str("USER QUESTION:"), Str("SQL QUERY:"), Str("\n\n"),
      Str("\nPlease"), Str("\nNote"), Str("\nExplanation")>>

LastResort(text) ==
    LET sql == Strip(Slice(text, Find(Upper(text), Str("SELECT")), Len(text)))
        hits == {k \in 1..Len(LastResortPatterns) :
                    Contains(Upper(sql), Upper(LastResortPatterns[k]))}
        pat == LastResortPatterns[Min(hits)]
        sep == IF Contains(sql, pat) THEN pat ELSE Upper(pat)
    IN  IF hits = {} THEN sql
        ELSE IF Contains(sql, sep) THEN Strip(Slice(sql, 0, Find(sql, sep)))
        ELSE Strip(sql)

\* lines 293-329: the candidate statement
Candidate(text) ==
    IF LabelMatch(text) # NoMatch THEN Strip(LabelMatch(text))
    ELSE IF SelectMatch(text) # NoMatch THEN Strip(SelectMatch(text))
    ELSE IF SelectSemicolonMatch(text) # NoMatch THEN Strip(SelectSemicolonMatch(text))
    ELSE IF Contains(Upper(text), Str("SELECT")) THEN LastResort(text)
    ELSE Strip(text)

\* the backquote character, which a string literal cannot hold
Backquote == "backquote"
Fence == <<Backquote, Backquote, Backquote>>

\* lines 331-338: code fences and chat-format tokens are deleted
StripArtifacts(sql) ==
    LET a == SubLiteralWs(sql, Fence \o Str("sql"), TRUE, 0)
        b == SubLiteralWs(a, Fence, FALSE, 0)
        c == SubLiteralWs(b, Str("[/INST]"), TRUE, 0)
        d == SubLiteralWs(c, Str("[INST]"), TRUE, 0)
        e == SubLiteralWs(d, Str("<s>"), TRUE, 0)
    IN  SubLiteralWs(e, Str("</s>"), TRUE, 0)

explanation_words ==
    {Str("Please"), Str("Note"), Str("Explanation"), Str("This query"),
     Str("The query"), Str("This will"), Str("This returns")}

\* lines 340-349: the statement is cut at the first explanation word, then
\* at the first '--'
CutExplanation(sql) ==
    LET M == {k \in 0..Len(sql) : AnyAtI(sql, explanation_words, k)}
        a == IF M = {} THEN sql ELSE Strip(Slice(sql, 0, Min(M)))
        D == {k \in 0..Len(a) : MatchAt(a, <<"-", "-">>, k)}
    IN  IF D = {} THEN a ELSE Strip(Slice(a, 0, Min(D)))

line_stop_words ==
    {Str("Please"), Str("Note"), Str("Explanation"), Str("This"),
     Str("The query"), Str("This will"), Str("This returns")}

sql_clause_words ==
    {Str("SELECT"), Str("FROM"), Str("WHERE"), Str("GROUP"), Str("ORDER"),
     Str("HAVING"), Str("JOIN")}

\* lines 352-378: the loop over the lines of the statement; the lines kept
RECURSIVE KeepLines(_)
KeepLines(lines) ==
    IF lines = <<>> THEN <<>>
    ELSE LET line == Strip(Head(lines))
             cut == Strip(CutAtI(line, Str("[/INST]")))
         IN  IF line = <<>> THEN KeepLines(Tail(lines))
             ELSE IF Contains(Upper(line), USER_QUESTION) \/ Contains(Upper(line), SQL_QUERY)
             THEN <<>>
             ELSE IF Contains(line, Str("[/INST]")) \/ Contains(line, Str("[INST]"))
             THEN IF cut # <<>> THEN <<cut>> ELSE <<>>
             ELSE IF AnyAtI(line, line_stop_words, 0)
             THEN <<>>
             ELSE IF StartsWith(line, <<"#">>) /\
                     ~\E kw \in sql_clause_words : Contains(Upper(line), kw)
             THEN <<>>
             ELSE <<line>> \o KeepLines(Tail(lines))

\* _extract_sql without the final ';' of lines 387-389
_extract_sql_unterminated(generated_text) ==
    LET stripped == Strip(generated_text)
        user_question_pos == Find(Upper(stripped), USER_QUESTION)
        sql_query_pos == Find(Upper(stripped), SQL_QUERY)
        cutoff_pos == Min({Len(stripped)}
                          \cup (IF user_question_pos > 0 THEN {user_question_pos} ELSE {})
                          \cup (IF sql_query_pos > 0 THEN {sql_query_pos} ELSE {}))
        text == IF cutoff_pos < Len(stripped)
                THEN Strip(Slice(stripped, 0, cutoff_pos)) ELSE stripped
        cleaned == CutExplanation(StripArtifacts(Candidate(text)))
        joined == Strip(JoinSpace(KeepLines(SplitLines(cleaned))))
        sql == Strip(CutAtI(CutAtI(joined, USER_QUESTION), SQL_QUERY))
    IN  IF stripped = <<>> THEN <<>>
        ELSE sql

\* SQLQueryGenerator._extract_sql
_extract_sql(generated_text) ==
    LET stripped == Strip(generated_text)
        user_question_pos == Find(Upper(stripped), USER_QUESTION)
        sql_query_pos == Find(Upper(stripped), SQL_QUERY)
        cutoff_pos == Min({Len(stripped)}
                          \cup (IF user_question_pos > 0 THEN {user_question_pos} ELSE {})
                          \cup (IF sql_query_pos > 0 THEN {sql_query_pos} ELSE {}))
        text == IF cutoff_pos < Len(stripped)
                THEN Strip(Slice(stripped, 0, cutoff_pos)) ELSE stripped
        cleaned == CutExplanation(StripArtifacts(Candidate(text)))
        joined == Strip(JoinSpace(KeepLines(SplitLines(cleaned))))
        sql == Strip(CutAtI(CutAtI(joined, USER_QUESTION), SQL_QUERY))
    IN  IF stripped = <<>> THEN <<>>
        ELSE IF sql # <<>> /\ ~EndsWith(sql, <<";">>) THEN sql \o <<";">>
        ELSE sql

(***************************************************************************)
(* ConversationManager (Model/conversation_manager.py)                     *)
(***************************************************************************)

\* Python's None, distinct from every string
None == <<"None">>

\* ConversationManager.__init__(max_history=10)
DefaultMaxHistory == 10

\* the turn add_turn builds; its timestamp and its (always empty) context
\* are read by nothing and are left out
Turn(user_input, sql_query) == [user_input |-> user_input, sql_query |-> sql_query]

\* add_turn without the eviction of lines 43-45
add_turn_unbounded(store, user_input, sql_query) ==
    [history |-> Append(store.history, Turn(user_input, sql_query)),
     last_query |-> sql_query,
     last_sql |-> sql_query,
     max_history |-> store.max_history]

\* add_turn without the assignments of lines 40-41
add_turn_stale(store, user_input, sql_query) ==
    LET appended == Append(store.history, Turn(user_input, sql_query))
        n == Len(appended)
    IN  [history |-> IF n > store.max_history /\ store.max_history > 0
                     THEN SubSeq(appended, n - store.max_history + 1, n)
                     ELSE appended,
         last_query |-> store.last_query,
         last_sql |-> store.last_sql,
         max_history |-> store.max_history]

\* ConversationManager.add_turn: the store after the call.  The slice
\* history[-max_history:] keeps the last max_history turns for a positive
\* bound, the whole list for 0 and drops the first -max_history turns for a
\* negative one.
add_turn(store, user_input, sql_query) ==
    LET appended == Append(store.history, Turn(user_input, sql_query))
        n == Len(appended)
        m == store.max_history
        first == IF m > 0 THEN n - m ELSE Min({-m, n})
    IN  [history |-> IF n > m THEN Slice(appended, first, n) ELSE appended,
         last_query |-> sql_query,
         last_sql |-> sql_query,
         max_history |-> m]

\* clear_history that leaves last_query and last_sql as they are
clear_history_keeping_last(store) ==
    [history |-> <<>>, last_query |-> store.last_query, last_sql |-> store.last_sql,
     max_history |-> store.max_history]

\* ConversationManager.clear_history: the store after the call
clear_history(store) ==
    [history |-> <<>>, last_query |-> None, last_sql |-> None,
     max_history |-> store.max_history]

\* the indicators without 'filter'
follow_up_indicators_without_filter ==
    {Str("now show me"), Str("now show"), Str("show me"), Str("also show"),
     Str("and show"), Str("then show"), Str("next show"), Str("also"),
     Str("and"), Str("then"), Str("next"), Str("refine"),
     Str("narrow"), Str("expand")}

follow_up_indicators ==
    {Str("now show me"), Str("now show"), Str("show me"), Str("also show"),
     Str("and show"), Str("then show"), Str("next show"), Str("also"),
     Str("and"), Str("then"), Str("next"), Str("filter"), Str("refine"),
     Str("narrow"), Str("expand")}

\* is_follow_up without the test of last_query (lines 57-58)
is_follow_up_ignoring_store(store, user_input) ==
    \E indicator \in follow_up_indicators :
        Contains(Strip(Lower(user_input)), indicator)

\* ConversationManager.is_follow_up
is_follow_up(store, user_input) ==
    IF store.last_query = None \/ store.last_query = <<>> THEN FALSE
    ELSE \E indicator \in follow_up_indicators :
             Contains(Strip(Lower(user_input)), indicator)

\* the decimal digits of a turn number 1..9
Decimal(i) == <<Digits[i + 1]>>

\* get_context_prompt over the whole history instead of history[-3:]
get_context_prompt_all_turns(store) ==
    LET n == Len(store.history)
        recent_turns == store.history
        block(i) == Str("\nTurn ") \o Decimal(i) \o Str(":")
                    \o Str("\n  User: ") \o recent_turns[i].user_input
                    \o Str("\n  SQL: ") \o recent_turns[i].sql_query
        RECURSIVE blocks(_)
        blocks(i) == IF i > Len(recent_turns) THEN <<>>
                     ELSE Str("\n") \o block(i) \o blocks(i + 1)
    IN  IF n = 0 THEN <<>>
        ELSE Str("Previous conversation:") \o blocks(1)

\* ConversationManager.get_context_prompt
get_context_prompt(store) ==
    LET n == Len(store.history)
        recent_turns == SubSeq(store.history, IF n > 3 THEN n - 2 ELSE 1, n)
        block(i) == Str("\nTurn ") \o Decimal(i) \o Str(":")
                    \o Str("\n  User: ") \o recent_turns[i].user_input
                    \o Str("\n  SQL: ") \o recent_turns[i].sql_query
        RECURSIVE blocks(_)
        blocks(i) == IF i > Len(recent_turns) THEN <<>>
                     ELSE Str("\n") \o block(i) \o blocks(i + 1)
    IN  IF n = 0 THEN <<>>
        ELSE Str("Previous conversation:") \o blocks(1)

(***************************************************************************)
(* SQLQueryGenerator (Model/sql_generator.py)                              *)
(***************************************************************************)

\* the greetings of _is_sql_related_query.  The questions of the model are
\* ASCII, so the Cyrillic entries of the list can match none of them and
\* are not written out.
greetings ==
    {Str("hello"), Str("hi"), Str("hey"), Str("how are you"), Str("thanks"),
     Str("thank you"), Str("bye"), Str("goodbye"), Str("what is your name"),
     Str("who are you"), Str("what can you do"), Str("help"), Str("help me")}

\* its SQL/domain keywords, the ASCII ones
sql_keywords ==
    {Str("select"), Str("show"), Str("find"), Str("get"), Str("count"),
     Str("sum"), Str("avg"), Str("max"), Str("min"), Str("where"),
     Str("from"), Str("table"), Str("database"), Str("query"),
     Str("transaction"), Str("data"), Str("records"), Str("how many"),
     Str("calculate"), Str("show me"), Str("display"), Str("search"),
     Str("filter"), Str("in"), Str("date"), Str("time"), Str("year"),
     Str("month"), Str("city"), Str("amount"), Str("category"),
     Str("more than"), Str("greater"), Str("less than"), Str("between"),
     Str("and"), Str("or")}

\* len(s.split())
WordCount(s) == Cardinality({i \in 1..Len(s) : ~IsSpace(s[i]) /\ (i = 1 \/ IsSpace(s[i - 1]))})

\* SQLQueryGenerator._is_sql_related_query
_is_sql_related_query(user_input) ==
    LET input_lower == Strip(Lower(user_input))
        has_keyword == \E kw \in sql_keywords : Contains(input_lower, kw)
    IN  IF \E greeting \in greetings : Contains(input_lower, greeting) THEN FALSE
        ELSE IF has_keyword THEN TRUE
        ELSE IF WordCount(input_lower) <= 3 /\ ~has_keyword THEN FALSE
        ELSE TRUE

\* SQLQueryGenerator._build_prompt: the parts of the prompt that vary from
\* request to request (the instruction and schema blocks are constant text):
\* the conversation-context block, present for a follow-up with a non-empty
\* context, and the question
_build_prompt(store, user_input, follow_up) ==
    [context |-> IF follow_up /\ get_context_prompt(store) # <<>>
                 THEN get_context_prompt(store) ELSE None,
     question |-> user_input]

\* the fixed responses of generate
EmptyQueryResponse == Str("-- ERROR: Empty query provided. Please enter a question.")
NotAQueryResponse ==
    Str("-- This is not a SQL query request. Please ask questions about the database, such as:")
    \o Str("\n--   - 'Show me all transactions above $1000'")
    \o Str("\n--   - 'Count transactions in Almaty in November 2023'")
    \o Str("\n--   - 'Find transactions between dates'\n--   etc.")
EmptyResponseError == Str("-- ERROR: Model generated empty response. Please try again.")
ClarifyResponse == Str("-- Please clarify your question. The request is ambiguous.")
ErrorPrefix == Str("-- ERROR: ")

\* generated_text[:200] of the extraction-failure message
ExcerptLen == 200

clarification_phrases ==
    {Str("clarification"), Str("ambiguous"), Str("unclear"), Str("please specify")}

(***************************************************************************)
(* State                                                                   *)
(***************************************************************************)

VARIABLES
    conversation_manager, \* SQLQueryGenerator.conversation_manager: history, last_query, last_sql
    pc,                   \* the stage of the request in flight
    user_input,           \* the question generate was called with
    sanitized_input,      \* generate's local sanitized_input
    prompt,               \* the prompt handed to the oracle
    generated_text,       \* outputs[0]['generated_text']
    sql_query,            \* generate's local sql_query
    verdict,              \* what validate returned in this request
    result,               \* the string generate returns
    outcome,              \* how the request ended
    oracle_calls,         \* calls of self.pipeline in this request
    store_before,         \* the store as it was when the request began
    requests,             \* requests made so far
    fn, arg, ret,         \* a direct call of one function: its name, argument, result
    recorded,             \* the turns add_turn was given since the last clear_history
    app,                  \* the web UI: its sessions and what its last handler did
    threads               \* concurrent add_turn calls: the list objects and each thread's position

vars == <<conversation_manager, pc, user_input, sanitized_input, prompt,
          generated_text, sql_query, verdict, result, outcome, oracle_calls,
          store_before, requests, fn, arg, ret, recorded, app, threads>>

request_vars == <<user_input, sanitized_input, prompt, generated_text,
                  sql_query, verdict, result, outcome, oracle_calls, store_before>>

\* number of requests of one session
MaxRequests == 2

Terminal == {"Done", "Rejected", "Errored"}

NoVerdict == [is_valid |-> FALSE, error_msg |-> "not validated"]

\* store_before while no request is in flight
NoStore == [history |-> <<>>, last_query |-> None, last_sql |-> None, max_history |-> 0]

\* the value of prompt while no prompt has been built
NoPrompt == [context |-> None, question |-> None]

\* the UI sessions (browser tabs) of the web app
Sessions == {1, 2}

\* app before any handler has run: no session has acted, every chatbot is
\* empty, the store holds no turn of any session
NoApp == [session |-> 0, handler |-> "none", follow_up |-> FALSE,
          chatbot |-> [s \in Sessions |-> <<>>], owners |-> <<>>, owners_before |-> <<>>]

\* the threads that run add_turn
Threads == {1, 2}

\* threads before any call: one list object, the empty history, and every
\* thread outside add_turn
NoThreads == [heap |-> <<<<>>>>, ref |-> 1,
              t |-> [i \in Threads |-> [pc |-> "idle", turn |-> Turn(None, None),
                                         list |-> 0, slice |-> <<>>]]]

(***************************************************************************)
(* Inputs: the questions asked and the texts the oracle may produce        *)
(***************************************************************************)

DropQuestion == Str("DROP the transactions table")
StackedQuestion == Str("show t; DROP t")
ShowQuestion == Str("Show me all transactions above $1000")
FollowUpQuestion == Str("also show totals")

Questions ==
    {<<>>, Str("  "), Str("hello"), Str("ok"), DropQuestion, StackedQuestion,
     ShowQuestion, FollowUpQuestion}

\* clean single-line SELECT statements
CleanSelects ==
    {Str("SELECT * FROM t;"), Str("SELECT note FROM t;"),
     Str("SELECT * FROM transactions WHERE amount > 1000;")}

LabelLine == Str("SQL QUERY:\n")
NewTurn == Str("\n\nUSER QUESTION:\nwhat else")

RawPrefixes == {<<>>, LabelLine, Str("SQL QUERY: Note: ")}
RawBodies ==
    CleanSelects \cup
    {<<>>, Str("SELECT * FROM t; DROP TABLE t;"), Str("SELECT * FROM t;DROP TABLE t;"),
     Str("Please specify the period"),
     Str("I need clarification: do you mean this month or last month?")}
RawSuffixes == {<<>>, NewTurn}

\* what the oracle may return
RawOutputs == {pre \o body \o suf : pre \in RawPrefixes, body \in RawBodies, suf \in RawSuffixes}

\* what an exception of the oracle may say
OracleErrors == {Str("CUDA out of memory")}

(***************************************************************************)
(* SQLQueryGenerator.generate, stage by stage                              *)
(***************************************************************************)

Init ==
    /\ conversation_manager = [history |-> <<>>, last_query |-> None, last_sql |-> None,
                               max_history |-> DefaultMaxHistory]
    /\ pc = "Idle"
    /\ user_input = None
    /\ sanitized_input = None
    /\ prompt = NoPrompt
    /\ generated_text = None
    /\ sql_query = None
    /\ verdict = NoVerdict
    /\ result = None
    /\ outcome = "None"
    /\ oracle_calls = 0
    /\ store_before = NoStore
    /\ requests = 0
    /\ fn = "none"
    /\ arg = None
    /\ ret = None
    /\ recorded = <<>>
    /\ app = NoApp
    /\ threads = NoThreads

\* generate is called (lines 448-471): an empty question is answered at once
Generate(question) ==
    /\ pc = "Idle"
    /\ requests < MaxRequests
    /\ requests' = requests + 1
    /\ user_input' = question
    /\ store_before' = conversation_manager
    /\ IF Strip(question) = <<>>
       THEN /\ result' = EmptyQueryResponse
            /\ outcome' = "EmptyInput"
            /\ pc' = "Rejected"
       ELSE /\ pc' = "Filtering"
            /\ UNCHANGED <<result, outcome>>
    /\ UNCHANGED <<conversation_manager, sanitized_input, prompt, generated_text,
                   sql_query, verdict, oracle_calls, fn, arg, ret, recorded>>
    /\ UNCHANGED <<app, threads>>

\* lines 473-475: the relevance filter
Filter ==
    /\ pc = "Filtering"
    /\ IF ~_is_sql_related_query(user_input)
       THEN /\ result' = NotAQueryResponse
            /\ outcome' = "NotAQuery"
            /\ pc' = "Rejected"
       ELSE /\ pc' = "Sanitizing"
            /\ UNCHANGED <<result, outcome>>
    /\ UNCHANGED <<conversation_manager, user_input, sanitized_input, prompt,
                   generated_text, sql_query, verdict, oracle_calls, store_before,
                   requests, fn, arg, ret, recorded>>
    /\ UNCHANGED <<app, threads>>

\* Sanitize with the ValueError swallowed: the request goes on
SanitizeIgnoringError ==
    /\ pc = "Sanitizing"
    /\ sanitized_input' = Strip(user_input)
    /\ pc' = "Prompting"
    /\ UNCHANGED <<conversation_manager, user_input, prompt, generated_text,
                   sql_query, verdict, result, outcome, oracle_calls,
                   store_before, requests, fn, arg, ret, recorded>>
    /\ UNCHANGED <<app, threads>>

\* lines 477-482: sanitize_input, whose ValueError becomes the response
Sanitize ==
    /\ pc = "Sanitizing"
    /\ LET r == sanitize_input(Strip(user_input))
       IN  IF r.raised
           THEN /\ result' = ErrorPrefix
                             \o Str("Input contains potentially dangerous pattern: ")
                             \o r.value
                /\ outcome' = "UnsafeInput"
                /\ pc' = "Rejected"
                /\ UNCHANGED sanitized_input
           ELSE /\ sanitized_input' = r.value
                /\ pc' = "Prompting"
                /\ UNCHANGED <<result, outcome>>
    /\ UNCHANGED <<conversation_manager, user_input, prompt, generated_text,
                   sql_query, verdict, oracle_calls, store_before, requests,
                   fn, arg, ret, recorded>>
    /\ UNCHANGED <<app, threads>>

\* Prompt with the context block asked for on every request
PromptAlwaysFollowUp ==
    /\ pc = "Prompting"
    /\ prompt' = _build_prompt(conversation_manager, sanitized_input, TRUE)
    /\ pc' = "AwaitingOracle"
    /\ UNCHANGED <<conversation_manager, user_input, sanitized_input,
                   generated_text, sql_query, verdict, result, outcome,
                   oracle_calls, store_before, requests, fn, arg, ret, recorded>>
    /\ UNCHANGED <<app, threads>>

\* lines 484-491: follow-up detection and the prompt
Prompt ==
    /\ pc = "Prompting"
    /\ prompt' = _build_prompt(conversation_manager, sanitized_input,
                               is_follow_up(conversation_manager, sanitized_input))
    /\ pc' = "AwaitingOracle"
    /\ UNCHANGED <<conversation_manager, user_input, sanitized_input,
                   generated_text, sql_query, verdict, result, outcome,
                   oracle_calls, store_before, requests, fn, arg, ret, recorded>>
    /\ UNCHANGED <<app, threads>>

\* lines 494-516: the oracle returns a text
OracleReturns(text) ==
    /\ pc = "AwaitingOracle"
    /\ oracle_calls' = oracle_calls + 1
    /\ generated_text' = text
    /\ pc' = "Extracting"
    /\ UNCHANGED <<conversation_manager, user_input, sanitized_input, prompt,
                   sql_query, verdict, result, outcome, store_before, requests,
                   fn, arg, ret, recorded>>
    /\ UNCHANGED <<app, threads>>

\* OracleRaises without the except clause: the exception leaves generate
OracleRaisesUncaught(message) ==
    /\ pc = "AwaitingOracle"
    /\ oracle_calls' = oracle_calls + 1
    /\ outcome' = "OracleFailure"
    /\ pc' = "Raised"
    /\ UNCHANGED <<conversation_manager, user_input, sanitized_input, prompt,
                   generated_text, sql_query, verdict, result, store_before,
                   requests, fn, arg, ret, recorded>>
    /\ UNCHANGED <<app, threads>>

\* lines 494-516 and 555-556: the oracle raises, the handler answers
OracleRaises(message) ==
    /\ pc = "AwaitingOracle"
    /\ oracle_calls' = oracle_calls + 1
    /\ result' = ErrorPrefix \o Str("Failed to generate SQL - ") \o message
    /\ outcome' = "OracleFailure"
    /\ pc' = "Errored"
    /\ UNCHANGED <<conversation_manager, user_input, sanitized_input, prompt,
                   generated_text, sql_query, verdict, store_before, requests,
                   fn, arg, ret, recorded>>
    /\ UNCHANGED <<app, threads>>

\* Extract asking the oracle again when nothing could be extracted
ExtractRetrying ==
    /\ pc = "Extracting"
    /\ LET sql == _extract_sql(generated_text)
       IN  /\ sql_query' = sql
           /\ IF Strip(sql) = <<>>
              THEN pc' = "AwaitingOracle"
              ELSE pc' = "Validating"
    /\ UNCHANGED <<conversation_manager, user_input, sanitized_input, prompt,
                   generated_text, verdict, result, outcome, oracle_calls,
                   store_before, requests, fn, arg, ret, recorded>>
    /\ UNCHANGED <<app, threads>>

\* lines 519-539: extraction, the answers to an empty extraction, and the
\* clarification check
Extract ==
    /\ pc = "Extracting"
    /\ LET sql == _extract_sql(generated_text)
       IN  /\ sql_query' = sql
           /\ IF Strip(sql) = <<>>
              THEN IF Strip(generated_text) # <<>>
                   THEN IF Contains(Upper(generated_text), Str("SELECT"))
                        THEN /\ result' = Strip(generated_text)
                             /\ outcome' = "RawFallback"
                             /\ pc' = "Done"
                        ELSE /\ result' = ErrorPrefix
                                  \o Str("Could not extract SQL query from model output. Model generated: ")
                                  \o Slice(generated_text, 0, Min({ExcerptLen, Len(generated_text)}))
                             /\ outcome' = "ExtractionFailure"
                             /\ pc' = "Errored"
                   ELSE /\ result' = EmptyResponseError
                        /\ outcome' = "ExtractionFailure"
                        /\ pc' = "Errored"
              ELSE IF \E phrase \in clarification_phrases :
                          Contains(Lower(generated_text), phrase)
              THEN /\ result' = ClarifyResponse
                   /\ outcome' = "ClarificationNeeded"
                   /\ pc' = "Rejected"
              ELSE /\ pc' = "Validating"
                   /\ UNCHANGED <<result, outcome>>
    /\ UNCHANGED <<conversation_manager, user_input, sanitized_input, prompt,
                   generated_text, verdict, oracle_calls, store_before, requests,
                   fn, arg, ret, recorded>>
    /\ UNCHANGED <<app, threads>>

\* Validate with add_turn moved in front of the verdict check
ValidateRecordingFirst ==
    /\ pc = "Validating"
    /\ verdict' = validate(sql_query)
    /\ conversation_manager' = add_turn(conversation_manager, sanitized_input, sql_query)
    /\ recorded' = Append(recorded, Turn(sanitized_input, sql_query))
    /\ IF ~verdict'.is_valid
       THEN /\ result' = ErrorPrefix \o Str(verdict'.error_msg)
            /\ outcome' = "UnsafeOutput"
            /\ pc' = "Rejected"
       ELSE /\ result' = sql_query
            /\ outcome' = "Success"
            /\ pc' = "Done"
    /\ UNCHANGED <<user_input, sanitized_input, prompt, generated_text,
                   sql_query, oracle_calls, store_before, requests, fn, arg, ret>>
    /\ UNCHANGED <<app, threads>>

\* Validate sending a rejected statement back to extraction
ValidateReextracting ==
    /\ pc = "Validating"
    /\ verdict' = validate(sql_query)
    /\ IF ~verdict'.is_valid
       THEN pc' = "Extracting"
       ELSE pc' = "Recording"
    /\ UNCHANGED <<conversation_manager, user_input, sanitized_input, prompt,
                   generated_text, sql_query, result, outcome, oracle_calls,
                   store_before, requests, fn, arg, ret, recorded>>
    /\ UNCHANGED <<app, threads>>

\* lines 541-547: the safety gate
Validate ==
    /\ pc = "Validating"
    /\ verdict' = validate(sql_query)
    /\ IF ~verdict'.is_valid
       THEN /\ result' = ErrorPrefix \o Str(verdict'.error_msg)
            /\ outcome' = "UnsafeOutput"
            /\ pc' = "Rejected"
       ELSE /\ pc' = "Recording"
            /\ UNCHANGED <<result, outcome>>
    /\ UNCHANGED <<conversation_manager, user_input, sanitized_input, prompt,
                   generated_text, sql_query, oracle_calls, store_before,
                   requests, fn, arg, ret, recorded>>
    /\ UNCHANGED <<app, threads>>

\* Record taken straight after extraction, with no verdict asked for
RecordWithoutVerdict ==
    /\ pc = "Validating"
    /\ conversation_manager' = add_turn(conversation_manager, sanitized_input, sql_query)
    /\ recorded' = Append(recorded, Turn(sanitized_input, sql_query))
    /\ result' = sql_query
    /\ outcome' = "Success"
    /\ pc' = "Done"
    /\ UNCHANGED <<user_input, sanitized_input, prompt, generated_text,
                   sql_query, verdict, oracle_calls, store_before, requests,
                   fn, arg, ret>>
    /\ UNCHANGED <<app, threads>>

\* lines 549-553: the turn is recorded and the statement returned
Record ==
    /\ pc = "Recording"
    /\ conversation_manager' = add_turn(conversation_manager, sanitized_input, sql_query)
    /\ recorded' = Append(recorded, Turn(sanitized_input, sql_query))
    /\ result' = sql_query
    /\ outcome' = "Success"
    /\ pc' = "Done"
    /\ UNCHANGED <<user_input, sanitized_input, prompt, generated_text,
                   sql_query, verdict, oracle_calls, store_before, requests,
                   fn, arg, ret>>
    /\ UNCHANGED <<app, threads>>

\* generate has returned: the caller has the result, the session is idle
Return ==
    /\ pc \in Terminal
    /\ pc' = "Idle"
    /\ user_input' = None
    /\ sanitized_input' = None
    /\ prompt' = NoPrompt
    /\ generated_text' = None
    /\ sql_query' = None
    /\ verdict' = NoVerdict
    /\ result' = None
    /\ outcome' = "None"
    /\ oracle_calls' = 0
    /\ store_before' = NoStore
    /\ UNCHANGED <<conversation_manager, requests, fn, arg, ret, recorded>>
    /\ UNCHANGED <<app, threads>>

\* SQLQueryGenerator.clear_history, between two requests
ClearHistory ==
    /\ pc = "Idle"
    /\ conversation_manager' = clear_history(conversation_manager)
    /\ recorded' = <<>>
    /\ UNCHANGED <<pc, requests, fn, arg, ret>>
    /\ UNCHANGED request_vars
    /\ UNCHANGED <<app, threads>>

Next ==
    \/ \E question \in Questions : Generate(question)
    \/ Filter
    \/ Sanitize
    \/ Prompt
    \/ \E text \in RawOutputs : OracleReturns(text)
    \/ \E message \in OracleErrors : OracleRaises(message)
    \/ Extract
    \/ Validate
    \/ Record
    \/ Return
    \/ ClearHistory

Spec == Init /\ [][Next]_vars

\* number of requests of a run in which every request runs to its end
MaxRuns == 2

NextLive == Next /\ requests' <= MaxRuns

\* the stages of a request that generate has not left yet
InFlight == {"Filtering", "Sanitizing", "Prompting", "AwaitingOracle", "Extracting",
             "Validating", "Recording"}

\* the request in flight leaves its stage: generate executes its statements
\* one after the other, and the oracle call returns or raises
RequestAdvances ==
    /\ pc \in InFlight
    /\ pc' \in (InFlight \cup Terminal) \ {pc}

SpecLive == Init /\ [][NextLive]_vars /\ WF_pc(RequestAdvances)

(***************************************************************************)
(* Direct calls of validate and _extract_sql on bounded inputs             *)
(***************************************************************************)

\* pieces of text a call's argument is put together from
FnPieces ==
    <<Str("SELECT t;"), Str("select"), Str(" "), Str(";"), Str("DROP"),
      Str(" drop t;"), Str("exec("), Str("t"), Str("\n")>>

\* number of pieces of one argument
MaxPieces == 3

\* every concatenation of at most MaxPieces pieces
FnInputs ==
    UNION {{Concat([k \in 1..n |-> FnPieces[f[k]]]) : f \in [1..n -> 1..Len(FnPieces)]} :
           n \in 0..MaxPieces}

\* a clean statement with a marker after it and more text behind the
\* marker, with or without a marker in front
MarkerLeads == {<<>>, Str("SQL QUERY: "), Str("USER QUESTION: ")}
MarkerGaps == {<<>>, Str(" "), Str("\n")}
MarkerTails == {Str(" foo"), Str("\nSELECT 2;")}
MarkedInputsOf(statement) ==
    {lead \o statement \o gap \o marker \o tail :
        lead \in MarkerLeads, gap \in MarkerGaps,
        marker \in {USER_QUESTION, SQL_QUERY}, tail \in MarkerTails}
MarkedInputs == UNION {MarkedInputsOf(statement) : statement \in CleanSelects}

\* clean statements, with and without their ';'
CleanInputs == CleanSelects \cup {SubSeq(c, 1, Len(c) - 1) : c \in CleanSelects}

\* statements with comments around them: in front, behind, at the start of
\* a line and in the middle of one
CommentLeads == {<<>>, Str("-- c\n"), Str("/* c */ "), Str("/* c */-- c\n"), Str(" \n")}
CommentBodies ==
    {Str("SELECT a FROM t"), Str("select a from t"), Str("SeLeCt a FrOm t"),
     Str("DROP t"), Str("SELECT a FROM t; DELETE FROM t")}
CommentTails == {<<>>, Str(" -- DROP"), Str(" /* DROP */"), Str("\n-- DROP t"), Str(";")}
CommentInputs ==
    {lead \o body \o tail :
        lead \in CommentLeads, body \in CommentBodies, tail \in CommentTails}

\* questions for the input gates: with and without keywords, greetings and
\* injection patterns, in either letter case
QuestionInputs ==
    Questions \cup
    {Str("show this table"), Str("hello show me data"), Str("show transactions"),
     Str("a b c d"), Str("rows per user"), Str("totals"), Str("list all"),
     Str("  Show totals  "), Str("x UNION select y"), Str("id 1=1"),
     Str("a or 1=1"), Str("what -- now"), Str("sum /* x"), Str("sum x */"),
     Str("; delete all"), Str("t; Update t"), Str("t ;insert"), Str("union  select")}

InitFn ==
    /\ conversation_manager = [history |-> <<>>, last_query |-> None, last_sql |-> None,
                               max_history |-> DefaultMaxHistory]
    /\ pc = "Idle"
    /\ user_input = None
    /\ sanitized_input = None
    /\ prompt = NoPrompt
    /\ generated_text = None
    /\ sql_query = None
    /\ verdict = NoVerdict
    /\ result = None
    /\ outcome = "None"
    /\ oracle_calls = 0
    /\ store_before = NoStore
    /\ requests = 0
    /\ fn = "none"
    /\ arg \in FnInputs \cup MarkedInputs \cup CleanInputs \cup CommentInputs
                \cup QuestionInputs
    /\ ret = None
    /\ recorded = <<>>
    /\ app = NoApp
    /\ threads = NoThreads

\* SafetyValidator().validate(arg)
CallValidate ==
    /\ fn = "none"
    /\ fn' = "validate"
    /\ ret' = validate(arg)
    /\ UNCHANGED <<arg, conversation_manager, pc, requests, recorded>>
    /\ UNCHANGED request_vars
    /\ UNCHANGED <<app, threads>>

\* generator._extract_sql(arg)
CallExtract ==
    /\ fn = "none"
    /\ fn' = "_extract_sql"
    /\ ret' = _extract_sql(arg)
    /\ UNCHANGED <<arg, conversation_manager, pc, requests, recorded>>
    /\ UNCHANGED request_vars
    /\ UNCHANGED <<app, threads>>

\* SafetyValidator().sanitize_input(arg)
CallSanitize ==
    /\ fn = "none"
    /\ fn' = "sanitize_input"
    /\ ret' = sanitize_input(arg)
    /\ UNCHANGED <<arg, conversation_manager, pc, requests, recorded>>
    /\ UNCHANGED request_vars
    /\ UNCHANGED <<app, threads>>

\* generator._is_sql_related_query(arg)
CallIsSqlRelated ==
    /\ fn = "none"
    /\ fn' = "_is_sql_related_query"
    /\ ret' = _is_sql_related_query(arg)
    /\ UNCHANGED <<arg, conversation_manager, pc, requests, recorded>>
    /\ UNCHANGED request_vars
    /\ UNCHANGED <<app, threads>>

NextFn ==
    \/ CallValidate
    \/ CallExtract
    \/ CallSanitize
    \/ CallIsSqlRelated

SpecFn == InitFn /\ [][NextFn]_vars

(***************************************************************************)
(* The web app (Model/app.py): one generator for every UI session          *)
(***************************************************************************)

\* what one call of generate gives: the response, how the request ended, the
\* store it leaves, and the prompt and the is_follow_up result when the
\* request got that far
Ended(response, how, store, p, follow) ==
    [result |-> response, outcome |-> how, store |-> store, prompt |-> p,
     follow_up |-> follow]

\* lines 541-553: the verdict v for the extracted statement
generate_validated(store, sanitized, follow, p, sql, v) ==
    IF ~v.is_valid
    THEN Ended(ErrorPrefix \o Str(v.error_msg), "UnsafeOutput", store, p, follow)
    ELSE Ended(sql, "Success", add_turn(store, sanitized, sql), p, follow)

\* lines 522-547: what _extract_sql made of the oracle's text
generate_extracted(store, text, sanitized, follow, p, sql) ==
    IF Strip(sql) = <<>>
    THEN IF Strip(text) = <<>>
         THEN Ended(EmptyResponseError, "ExtractionFailure", store, p, follow)
         ELSE IF Contains(Upper(text), Str("SELECT"))
         THEN Ended(Strip(text), "RawFallback", store, p, follow)
         ELSE Ended(ErrorPrefix
                    \o Str("Could not extract SQL query from model output. Model generated: ")
                    \o Slice(text, 0, Min({ExcerptLen, Len(text)})),
                    "ExtractionFailure", store, p, follow)
    ELSE IF \E phrase \in clarification_phrases : Contains(Lower(text), phrase)
    THEN Ended(ClarifyResponse, "ClarificationNeeded", store, p, follow)
    ELSE generate_validated(store, sanitized, follow, p, sql, validate(sql))

\* lines 488-519 and 555-556: the prompt p is built and the oracle asked
generate_prompted(store, answer, sanitized, follow, p) ==
    IF answer.raised
    THEN Ended(ErrorPrefix \o Str("Failed to generate SQL - ") \o answer.text,
               "OracleFailure", store, p, follow)
    ELSE generate_extracted(store, answer.text, sanitized, follow, p,
                            _extract_sql(answer.text))

\* lines 484-488: follow-up detection on the sanitized question
generate_follow_up(store, answer, sanitized, follow) ==
    generate_prompted(store, answer, sanitized, follow,
                      _build_prompt(store, sanitized, follow))

\* lines 477-485: r is what sanitize_input did
generate_sanitized(store, answer, r) ==
    IF r.raised
    THEN Ended(ErrorPrefix \o Str("Input contains potentially dangerous pattern: ")
               \o r.value, "UnsafeInput", store, NoPrompt, FALSE)
    ELSE generate_follow_up(store, answer, r.value, is_follow_up(store, r.value))

\* SQLQueryGenerator.generate as one call; answer is what the oracle does
\* when it is asked
generate(store, question, answer) ==
    IF Strip(question) = <<>>
    THEN Ended(EmptyQueryResponse, "EmptyInput", store, NoPrompt, FALSE)
    ELSE IF ~_is_sql_related_query(question)
    THEN Ended(NotAQueryResponse, "NotAQuery", store, NoPrompt, FALSE)
    ELSE generate_sanitized(store, answer, sanitize_input(Strip(question)))

\* what the sessions type, and what the oracle does
AppQuestions == {ShowQuestion, FollowUpQuestion, Str(" ")}
AppAnswers == {[raised |-> FALSE, text |-> Str("SELECT * FROM t;")],
               [raised |-> TRUE, text |-> Str("CUDA out of memory")]}

\* number of handler calls of one run of the app
MaxSubmits == 3

\* the last n elements of a sequence
LastN(seq, n) == SubSeq(seq, Len(seq) - Min({n, Len(seq)}) + 1, Len(seq))

\* generate_sql(question, history), called for session s by submit_btn.click
\* or question_input.submit: an empty question returns at once, any other
\* goes to the one global generator and the pair of question and response
\* is appended to the chatbot of the session
AppGenerateSql(s, asked, answer) ==
    /\ requests < MaxSubmits
    /\ requests' = requests + 1
    /\ \E question \in {Strip(asked)} :
       \E g \in {generate(conversation_manager, question, answer)} :
           IF question = <<>>
           THEN /\ app' = [app EXCEPT !.session = s, !.handler = "generate_sql",
                                       !.follow_up = FALSE, !.owners_before = app.owners]
                /\ user_input' = question
                /\ prompt' = NoPrompt
                /\ result' = None
                /\ outcome' = "None"
                /\ UNCHANGED conversation_manager
           ELSE /\ conversation_manager' = g.store
                /\ app' = [session |-> s, handler |-> "generate_sql",
                           follow_up |-> g.follow_up,
                           chatbot |-> [app.chatbot EXCEPT ![s] = Append(@, <<question, g.result>>)],
                           owners |-> IF g.outcome = "Success"
                                      THEN LastN(Append(app.owners, s), Len(g.store.history))
                                      ELSE app.owners,
                           owners_before |-> app.owners]
                /\ user_input' = question
                /\ prompt' = g.prompt
                /\ result' = g.result
                /\ outcome' = g.outcome
    /\ store_before' = conversation_manager
    /\ UNCHANGED <<pc, sanitized_input, generated_text, sql_query, verdict,
                   oracle_calls, fn, arg, ret, recorded, threads>>

\* clear_conversation(), called for session s by clear_btn.click: the global
\* generator's history is cleared and the chatbot of the session emptied
AppClearConversation(s) ==
    /\ requests < MaxSubmits
    /\ requests' = requests + 1
    /\ conversation_manager' = clear_history(conversation_manager)
    /\ app' = [session |-> s, handler |-> "clear_conversation", follow_up |-> FALSE,
               chatbot |-> [app.chatbot EXCEPT ![s] = <<>>],
               owners |-> <<>>, owners_before |-> app.owners]
    /\ store_before' = conversation_manager
    /\ UNCHANGED <<pc, user_input, sanitized_input, prompt, generated_text,
                   sql_query, verdict, result, outcome, oracle_calls, fn, arg,
                   ret, recorded, threads>>

NextApp ==
    \/ \E s \in Sessions, asked \in AppQuestions, answer \in AppAnswers :
           AppGenerateSql(s, asked, answer)
    \/ \E s \in Sessions : AppClearConversation(s)

SpecApp == Init /\ [][NextApp]_vars

(***************************************************************************)
(* Two handler threads in ConversationManager.add_turn at once             *)
(***************************************************************************)

\* max_history of the store the threads share
RaceMaxHistory == 2

\* number of add_turn calls of one run
MaxRaceTurns == 4

\* the turn of the k-th call
RaceTurn(k) == Turn(<<"q", Digits[k + 1]>>, Str("SELECT ") \o <<Digits[k + 1], ";">>)

InitRace ==
    /\ conversation_manager = [history |-> <<>>, last_query |-> None, last_sql |-> None,
                               max_history |-> RaceMaxHistory]
    /\ pc = "Idle"
    /\ user_input = None
    /\ sanitized_input = None
    /\ prompt = NoPrompt
    /\ generated_text = None
    /\ sql_query = None
    /\ verdict = NoVerdict
    /\ result = None
    /\ outcome = "None"
    /\ oracle_calls = 0
    /\ store_before = NoStore
    /\ requests = 0
    /\ fn = "none"
    /\ arg = None
    /\ ret = None
    /\ recorded = <<>>
    /\ app = NoApp
    /\ threads = NoThreads

race_frame == <<pc, user_input, sanitized_input, prompt, generated_text, sql_query,
                verdict, result, outcome, oracle_calls, store_before, fn, arg, ret, app>>

\* generate reaches line 550 in thread i: add_turn is entered, the turn built
AddTurnCall(i) ==
    /\ threads.t[i].pc = "idle"
    /\ requests < MaxRaceTurns
    /\ requests' = requests + 1
    /\ threads' = [threads EXCEPT !.t[i].pc = "39_load",
                                  !.t[i].turn = RaceTurn(requests + 1)]
    /\ UNCHANGED <<conversation_manager, recorded>>
    /\ UNCHANGED race_frame

\* line 39, self.history: the thread takes the list object history names now
AddTurnLoadList(i) ==
    /\ threads.t[i].pc = "39_load"
    /\ threads' = [threads EXCEPT !.t[i].pc = "39_append", !.t[i].list = threads.ref]
    /\ UNCHANGED <<conversation_manager, requests, recorded>>
    /\ UNCHANGED race_frame

\* line 39, .append(turn): the turn goes to the end of the list object the
\* thread took, which history may no longer name
AddTurnAppend(i) ==
    /\ threads.t[i].pc = "39_append"
    /\ LET heap == [threads.heap EXCEPT ![threads.t[i].list] = Append(@, threads.t[i].turn)]
       IN  /\ threads' = [threads EXCEPT !.heap = heap, !.t[i].pc = "40"]
           /\ conversation_manager' =
                  [conversation_manager EXCEPT !.history = heap[threads.ref]]
    /\ recorded' = Append(recorded, threads.t[i].turn)
    /\ UNCHANGED requests
    /\ UNCHANGED race_frame

\* line 40: self.last_query = sql_query
AddTurnSetLastQuery(i) ==
    /\ threads.t[i].pc = "40"
    /\ conversation_manager' =
           [conversation_manager EXCEPT !.last_query = threads.t[i].turn.sql_query]
    /\ threads' = [threads EXCEPT !.t[i].pc = "41"]
    /\ UNCHANGED <<requests, recorded>>
    /\ UNCHANGED race_frame

\* line 41: self.last_sql = sql_query
AddTurnSetLastSql(i) ==
    /\ threads.t[i].pc = "41"
    /\ conversation_manager' =
           [conversation_manager EXCEPT !.last_sql = threads.t[i].turn.sql_query]
    /\ threads' = [threads EXCEPT !.t[i].pc = "44"]
    /\ UNCHANGED <<requests, recorded>>
    /\ UNCHANGED race_frame

\* line 44: if len(self.history) > self.max_history, else add_turn returns
AddTurnTestLength(i) ==
    /\ threads.t[i].pc = "44"
    /\ threads' = [threads EXCEPT !.t[i].pc =
                      IF Len(conversation_manager.history) > conversation_manager.max_history
                      THEN "45_slice" ELSE "idle"]
    /\ UNCHANGED <<conversation_manager, requests, recorded>>
    /\ UNCHANGED race_frame

\* line 45, right-hand side: self.history[-self.max_history:] is a new list
AddTurnSlice(i) ==
    /\ threads.t[i].pc = "45_slice"
    /\ LET n == Len(conversation_manager.history)
           m == conversation_manager.max_history
           first == IF m > 0 THEN Max({n - m, 0}) ELSE Min({-m, n})
       IN  threads' = [threads EXCEPT !.t[i].pc = "45_store",
                                      !.t[i].slice = Slice(conversation_manager.history, first, n)]
    /\ UNCHANGED <<conversation_manager, requests, recorded>>
    /\ UNCHANGED race_frame

\* line 45, assignment: history names the new list, and add_turn returns
AddTurnStoreList(i) ==
    /\ threads.t[i].pc = "45_store"
    /\ threads' = [threads EXCEPT !.heap = Append(@, threads.t[i].slice),
                                  !.ref = Len(threads.heap) + 1,
                                  !.t[i].pc = "idle"]
    /\ conversation_manager' =
           [conversation_manager EXCEPT !.history = threads.t[i].slice]
    /\ UNCHANGED <<requests, recorded>>
    /\ UNCHANGED race_frame

NextRace ==
    \E i \in Threads :
        \/ AddTurnCall(i)
        \/ AddTurnLoadList(i)
        \/ AddTurnAppend(i)
        \/ AddTurnSetLastQuery(i)
        \/ AddTurnSetLastSql(i)
        \/ AddTurnTestLength(i)
        \/ AddTurnSlice(i)
        \/ AddTurnStoreList(i)

SpecRace == InitRace /\ [][NextRace]_vars

(***************************************************************************)
(* Direct calls of the ConversationManager                                 *)
(***************************************************************************)

NowShowQuestion == Str("now show totals")
PlainQuestion == Str("totals by city")
FilterQuestion == Str("FILTER by city ")

\* the questions is_follow_up is asked about
StoreQuestions ==
    {ShowQuestion, FollowUpQuestion, NowShowQuestion, PlainQuestion, FilterQuestion}

\* the turns recorded: a question with a statement validate allows
StoreTurns ==
    {Turn(ShowQuestion, Str("SELECT * FROM transactions WHERE amount > 1000;")),
     Turn(FollowUpQuestion, Str("SELECT * FROM t;")),
     Turn(PlainQuestion, Str("SELECT;"))}

\* the largest max_history a store is built with
MaxHistoryBound == 4

\* number of calls made on one store
MaxCalls == 6

\* ConversationManager(max_history=N)
InitStore ==
    /\ \E N \in 1..MaxHistoryBound :
           conversation_manager = [history |-> <<>>, last_query |-> None,
                                   last_sql |-> None, max_history |-> N]
    /\ pc = "Idle"
    /\ user_input = None
    /\ sanitized_input = None
    /\ prompt = NoPrompt
    /\ generated_text = None
    /\ sql_query = None
    /\ verdict = NoVerdict
    /\ result = None
    /\ outcome = "None"
    /\ oracle_calls = 0
    /\ store_before = NoStore
    /\ requests = 0
    /\ fn = "none"
    /\ arg = None
    /\ ret = None
    /\ recorded = <<>>
    /\ app = NoApp
    /\ threads = NoThreads

store_frame == <<pc, user_input, sanitized_input, prompt, generated_text,
                 sql_query, verdict, result, outcome, oracle_calls>>

\* store.add_turn(turn.user_input, turn.sql_query)
CallAddTurn(turn) ==
    /\ requests < MaxCalls
    /\ requests' = requests + 1
    /\ store_before' = conversation_manager
    /\ conversation_manager' = add_turn(conversation_manager, turn.user_input, turn.sql_query)
    /\ recorded' = Append(recorded, turn)
    /\ fn' = "add_turn"
    /\ arg' = turn.user_input
    /\ ret' = None
    /\ UNCHANGED store_frame
    /\ UNCHANGED <<app, threads>>

\* store.clear_history()
CallClearHistory ==
    /\ requests < MaxCalls
    /\ requests' = requests + 1
    /\ store_before' = conversation_manager
    /\ conversation_manager' = clear_history(conversation_manager)
    /\ recorded' = <<>>
    /\ fn' = "clear_history"
    /\ arg' = None
    /\ ret' = None
    /\ UNCHANGED store_frame
    /\ UNCHANGED <<app, threads>>

\* store.is_follow_up(question)
CallIsFollowUp(question) ==
    /\ requests < MaxCalls
    /\ requests' = requests + 1
    /\ store_before' = conversation_manager
    /\ fn' = "is_follow_up"
    /\ arg' = question
    /\ ret' = is_follow_up(conversation_manager, question)
    /\ UNCHANGED <<conversation_manager, recorded>>
    /\ UNCHANGED store_frame
    /\ UNCHANGED <<app, threads>>

\* store.get_context_prompt()
CallGetContextPrompt ==
    /\ requests < MaxCalls
    /\ requests' = requests + 1
    /\ store_before' = conversation_manager
    /\ fn' = "get_context_prompt"
    /\ arg' = None
    /\ ret' = get_context_prompt(conversation_manager)
    /\ UNCHANGED <<conversation_manager, recorded>>
    /\ UNCHANGED store_frame
    /\ UNCHANGED <<app, threads>>

NextStore ==
    \/ \E turn \in StoreTurns : CallAddTurn(turn)
    \/ CallClearHistory
    \/ \E question \in StoreQuestions : CallIsFollowUp(question)
    \/ CallGetContextPrompt

SpecStore == InitStore /\ [][NextStore]_vars

(***************************************************************************)
(* Properties                                                              *)
(***************************************************************************)

history == conversation_manager.history
last_sql == conversation_manager.last_sql

\* a response that is neither an '-- ERROR: ...' string nor one of the fixed
\* advisory responses: generate hands it out as SQL
IsSqlResult(r) ==
    /\ r # None
    /\ ~StartsWith(r, Str("-- ERROR:"))
    /\ r \notin {NotAQueryResponse, ClarifyResponse}

\* C1: every string generate returns as a SQL result was passed to validate
\* in that request and got ALLOW, the raw-text fallback included
C1_ReturnedSqlWasValidated ==
    (pc \in Terminal /\ IsSqlResult(result)) =>
        (verdict.is_valid /\ sql_query = result)

\* position i of s lies in a '--' comment or in a '/* */' comment
InComment(s, i) ==
    \/ \E j \in 0..i : /\ MatchAt(s, <<"-", "-">>, j)
                       /\ \A k \in (j + 1)..i : s[k] # "\n"
    \/ \E j \in 0..(i - 2) : /\ MatchAt(s, <<"/", "*">>, j)
                             /\ \A k \in (j + 2)..(i - 2) : ~MatchAt(s, <<"*", "/">>, k)

\* a REJECT-set keyword stands in s as a token of its own, in any letter
\* case, outside a comment: no word character before or after it
HasStandaloneDangerous(s) ==
    \E w \in DANGEROUS_KEYWORDS : \E i \in 0..(Len(s) - Len(w)) :
        /\ MatchAtI(s, w, i)
        /\ (i = 0 \/ ~IsWordChar(s[i]))
        /\ (i + Len(w) = Len(s) \/ ~IsWordChar(s[i + Len(w) + 1]))
        /\ ~InComment(s, i)

\* C2: validate rejects every string in which a REJECT-set keyword occurs as
\* a standalone token outside a comment, however it is delimited
C2_DangerousTokenRejected ==
    (fn = "validate" /\ HasStandaloneDangerous(arg)) => ~ret.is_valid

\* C3: every turn of the history, and last_sql, carries a statement validate
\* allows, and the store is only changed by a request whose verdict was ALLOW
\* for the very statement recorded
C3_HistoryHoldsAllowedSql ==
    /\ \A sql \in {history[i].sql_query : i \in 1..Len(history)} \cup ({last_sql} \ {None}) :
           validate(sql).is_valid
    /\ (store_before # NoStore /\ conversation_manager # store_before) =>
           (verdict.is_valid /\ last_sql = sql_query)

C3_Witness ==
    /\ pc = "Done"
    /\ outcome = "Success"
    /\ Len(history) = 2
    /\ verdict.is_valid

FailureKinds ==
    {"EmptyInput", "NotAQuery", "UnsafeInput", "OracleFailure",
     "ExtractionFailure", "ClarificationNeeded", "UnsafeOutput"}

\* C4: a request that ends in one of the failure kinds leaves history,
\* last_query and last_sql as they were when it began
C4_FailureLeavesStore ==
    outcome \in FailureKinds => conversation_manager = store_before

C4_Witness ==
    /\ outcome = "UnsafeOutput"
    /\ pc = "Rejected"
    /\ Len(history) = 1

\* C5: the oracle is called only for a non-empty, relevant question that
\* sanitize_input accepted; a request stopped before makes no oracle call
C5_OracleOnlyAfterGates ==
    /\ oracle_calls > 0 =>
           /\ Strip(user_input) # <<>>
           /\ _is_sql_related_query(user_input)
           /\ ~sanitize_input(Strip(user_input)).raised
    /\ outcome \in {"EmptyInput", "NotAQuery", "UnsafeInput"} => oracle_calls = 0

C5_Witness ==
    /\ pc = "Extracting"
    /\ oracle_calls = 1
    /\ user_input = FollowUpQuestion

\* C6 as stated: 'DROP the transactions table' is refused at the sanitize
\* step and the oracle is not called
C6_DropQuestionStoppedAtSanitize ==
    (user_input = DropQuestion /\ pc \in Terminal) =>
        (outcome = "UnsafeInput" /\ oracle_calls = 0)

\* C6 amended: no pattern of sanitize_input occurs in 'DROP the transactions
\* table', so the request goes on to the oracle, which is called once; the
\* question with '; DROP' in it is the one refused at the sanitize step,
\* with no oracle call
C6_DropQuestionReachesOracle ==
    /\ (user_input = DropQuestion /\ pc \in Terminal) =>
           (outcome # "UnsafeInput" /\ oracle_calls = 1)
    /\ (user_input = StackedQuestion /\ pc \in Terminal) =>
           /\ outcome = "UnsafeInput"
           /\ oracle_calls = 0
           /\ result = Str("-- ERROR: Input contains potentially dangerous pattern: ; DROP")

C6_Witness ==
    /\ user_input = DropQuestion
    /\ pc \in Terminal
    /\ oracle_calls = 1

\* C7: an exception of the oracle call ends the request in Errored with an
\* '-- ERROR: ...' response; it does not leave generate, nothing is recorded
C7_OracleFailureIsAnswered ==
    outcome = "OracleFailure" =>
        /\ pc = "Errored"
        /\ StartsWith(result, Str("-- ERROR: "))
        /\ conversation_manager = store_before

C7_Witness ==
    /\ outcome = "OracleFailure"
    /\ pc = "Errored"
    /\ Len(history) = 1

\* C8: whenever the raw oracle text contains a clarification phrase the
\* request ends with the fixed clarification response and records nothing
C8_ClarificationAlwaysFixedResponse ==
    (/\ pc \in Terminal
     /\ generated_text # None
     /\ \E phrase \in clarification_phrases : Contains(Lower(generated_text), phrase)) =>
        (result = ClarifyResponse /\ conversation_manager = store_before)

\* C9: for the oracle output 'SQL QUERY:', a clean single-line SELECT
\* statement, a blank line and a new 'USER QUESTION:' turn, the request
\* succeeds and returns exactly that statement
C9_LabelledSelectReturned ==
    \A statement \in CleanSelects :
        (pc \in Terminal /\ generated_text = LabelLine \o statement \o NewTurn) =>
            (pc = "Done" /\ result = statement)

\* s is a list of two or more non-blank ';'-terminated statements on one
\* line, the first beginning with SELECT
IsStatementList(s) ==
    LET semis == {k \in 1..Len(s) : s[k] = ";"}
    IN  /\ StartsWith(Upper(s), Str("SELECT"))
        /\ EndsWith(s, <<";">>)
        /\ Cardinality(semis) >= 2
        /\ \A k \in 1..Len(s) : s[k] # "\n"
        /\ \A b \in semis :
               LET before == {a \in semis : a < b}
               IN  Strip(SubSeq(s, IF before = {} THEN 1 ELSE Max(before) + 1, b - 1)) # <<>>

\* C10: of several ';'-terminated statements _extract_sql returns the first
\* one only, up to and including its ';'
C10_OnlyFirstStatement ==
    (fn = "_extract_sql" /\ IsStatementList(arg)) =>
        ret = Slice(arg, 0, Find(arg, <<";">>) + 1)

\* C11: _extract_sql returns the empty string or a string that begins with
\* SELECT, and the empty string for a text with no SELECT in it
C11_EmptyOrSelect ==
    fn = "_extract_sql" =>
        /\ ret = <<>> \/ StartsWith(Upper(ret), Str("SELECT"))
        /\ ~Contains(Upper(arg), Str("SELECT")) => ret = <<>>

\* C12: of a clean statement followed by a marker and further text
\* _extract_sql returns exactly the statement, also with a marker at
\* position 0
C12_MarkerCutsContinuation ==
    \A statement \in CleanSelects :
        (fn = "_extract_sql" /\ arg \in MarkedInputsOf(statement)) => ret = statement

\* C13: a clean statement comes back unchanged up to a trailing ';', and a
\* second extraction changes nothing
C13_CleanStatementIsFixedPoint ==
    (fn = "_extract_sql" /\ arg \in CleanInputs) =>
        /\ ret \in {arg, arg \o <<";">>}
        /\ _extract_sql(ret) = ret

\* C14: _extract_sql returns a string for every text, the empty string for
\* a blank one, and every non-empty result ends with ';'
C14_TotalAndTerminated ==
    fn = "_extract_sql" =>
        /\ ret # None
        /\ DOMAIN ret = 1..Len(ret)
        /\ Strip(arg) = <<>> => ret = <<>>
        /\ ret # <<>> => EndsWith(ret, <<";">>)

C14_Witness ==
    /\ fn = "_extract_sql"
    /\ arg = Str("select")
    /\ ret = Str("select;")

\* C15: with a bound N >= 1 the history never holds more than N turns, and
\* it is the most recent min(k, N) of the k turns recorded since the last
\* clear, in the order they were recorded
C15_HistoryIsMostRecent ==
    LET N == conversation_manager.max_history
        k == Len(recorded)
        kept == Min({k, N})
    IN  N >= 1 =>
            /\ Len(history) <= N
            /\ history = SubSeq(recorded, k - kept + 1, k)

C15_Witness ==
    /\ fn = "add_turn"
    /\ conversation_manager.max_history = 2
    /\ Len(recorded) = 4
    /\ Len(history) = 2
    /\ history[1] # history[2]

\* C16: last_sql is None exactly when the history is empty, and otherwise is
\* the sql_query of the last turn of the history
C16_LastSqlMirrorsLastTurn ==
    /\ last_sql = None <=> history = <<>>
    /\ history # <<>> => last_sql = history[Len(history)].sql_query

C16_Witness ==
    /\ fn = "add_turn"
    /\ Len(history) = 2
    /\ history[1].sql_query # history[2].sql_query
    /\ last_sql = history[2].sql_query

\* C17: is_follow_up is False for every question while no turn is stored,
\* and True for 'also show totals' once a turn is stored
C17_FollowUpNeedsATurn ==
    fn = "is_follow_up" =>
        /\ history = <<>> => ret = FALSE
        /\ (history # <<>> /\ arg = FollowUpQuestion) => ret = TRUE

C17_Witness ==
    /\ fn = "is_follow_up"
    /\ arg = FollowUpQuestion
    /\ Len(history) = 1
    /\ ret = TRUE

\* the indicator phrases as the claim lists them
ClaimedIndicators ==
    {Str("now show me"), Str("show me"), Str("also show"), Str("and show"),
     Str("then show"), Str("next show"), Str("also"), Str("and"), Str("then"),
     Str("next"), Str("filter"), Str("refine"), Str("narrow"), Str("expand")}

\* C18 as stated: with a turn stored, is_follow_up(q) is True exactly when
\* the lower-cased, trimmed q contains one of the fourteen listed phrases
C18_FollowUpIffListedPhrase ==
    (fn = "is_follow_up" /\ history # <<>>) =>
        (ret <=> \E phrase \in ClaimedIndicators : Contains(Strip(Lower(arg)), phrase))

\* C18 amended: with a turn stored, is_follow_up(q) is True exactly when the
\* lower-cased, trimmed q contains one of the fourteen listed phrases or
\* 'now show'
C18_FollowUpIffListedOrNowShow ==
    (fn = "is_follow_up" /\ history # <<>>) =>
        (ret <=> \E phrase \in ClaimedIndicators \cup {Str("now show")} :
                     Contains(Strip(Lower(arg)), phrase))

C18_Witness ==
    /\ fn = "is_follow_up"
    /\ history # <<>>
    /\ arg = NowShowQuestion
    /\ ret = TRUE

\* the block of turn t with the label i
TurnBlock(i, t) ==
    Str("\n\nTurn ") \o <<Digits[i + 1]>> \o Str(":\n  User: ") \o t.user_input
    \o Str("\n  SQL: ") \o t.sql_query

\* C19: get_context_prompt returns the empty string for an empty history;
\* otherwise the heading and the blocks of the last min(3, len(history))
\* turns, oldest first, labelled Turn 1..k, and no block of an older turn
C19_ContextIsLastThreeTurns ==
    fn = "get_context_prompt" =>
        LET n == Len(history)
            k == Min({3, n})
            shown == [i \in 1..k |-> history[n - k + i]]
        IN  /\ n = 0 <=> ret = <<>>
            /\ n > 0 =>
                   /\ ret = Str("Previous conversation:")
                            \o Concat([i \in 1..k |-> TurnBlock(i, shown[i])])
                   /\ \A j \in 1..(n - k) :
                          (\A i \in 1..k : shown[i] # history[j]) =>
                              ~Contains(ret, Str("User: ") \o history[j].user_input)

C19_Witness ==
    /\ fn = "get_context_prompt"
    /\ Len(history) = 4
    /\ \A i \in 2..4 : history[i] # history[1]

\* C20: after clear_history the store equals a freshly created one:
\* history empty, last_sql and last_query None, get_context_prompt() empty,
\* is_follow_up False for every question; a second clear_history changes
\* nothing
C20_ClearedStoreIsFresh ==
    fn = "clear_history" =>
        /\ history = <<>>
        /\ last_sql = None
        /\ conversation_manager.last_query = None
        /\ get_context_prompt(conversation_manager) = <<>>
        /\ \A question \in StoreQuestions : ~is_follow_up(conversation_manager, question)
        /\ clear_history(conversation_manager) = conversation_manager

C20_Witness ==
    /\ fn = "clear_history"
    /\ Len(store_before.history) = 2
    /\ store_before.last_sql # None

\* the text of q with its comments taken out, read from left to right: a
\* '--' comment runs to the end of its line, a '/*' comment to the next '*/'
RECURSIVE WithoutComments(_, _)
WithoutComments(q, i) ==
    LET closeOf(k) == {c \in (k + 2)..(Len(q) - 2) : MatchAt(q, <<"*", "/">>, c)}
        opens == {k \in i..(Len(q) - 2) :
                     \/ MatchAt(q, <<"-", "-">>, k)
                     \/ MatchAt(q, <<"/", "*">>, k) /\ closeOf(k) # {}}
        k == Min(opens)
        eols == {e \in k..(Len(q) - 1) : q[e + 1] = "\n"}
    IN  IF opens = {} THEN Slice(q, i, Len(q))
        ELSE IF MatchAt(q, <<"-", "-">>, k)
        THEN Slice(q, i, k) \o (IF eols = {} THEN <<>> ELSE WithoutComments(q, Min(eols)))
        ELSE Slice(q, i, k) \o WithoutComments(q, Min(closeOf(k)) + 2)

\* C21: when the text of the query without its comments, trimmed, starts
\* with SELECT in any letter case, validate does not answer "Only SELECT
\* queries are allowed"; when it starts with anything else, validate rejects
C21_PrefixAfterCommentStripping ==
    fn = "validate" =>
        LET text == Strip(WithoutComments(arg, 0))
        IN  /\ MatchAtI(text, Str("select"), 0) =>
                   ret.error_msg # "Only SELECT queries are allowed"
            /\ (text # <<>> /\ ~MatchAtI(text, Str("select"), 0)) => ~ret.is_valid

\* C22: validate gives a query and the query without its comments the same
\* verdict
C22_CommentsAreNotCode ==
    fn = "validate" => ret.is_valid = validate(WithoutComments(arg, 0)).is_valid

\* the ten patterns of the input gate
TenPatterns ==
    {Str("; DROP"), Str("; DELETE"), Str("; UPDATE"), Str("; INSERT"),
     Str("UNION SELECT"), Str("1=1"), Str("OR 1=1"), Str("--"), Str("/*"), Str("*/")}

\* C23: sanitize_input raises exactly when one of the ten patterns occurs in
\* the question in any letter case, and otherwise returns the question
\* without its surrounding whitespace
C23_RaisesIffPattern ==
    fn = "sanitize_input" =>
        LET hit == \E p \in TenPatterns : \E i \in 0..Len(arg) : MatchAtI(arg, p, i)
        IN  /\ ret.raised <=> hit
            /\ ~hit => ret.value = Strip(arg)

C23_Witness ==
    /\ fn = "sanitize_input"
    /\ ret.raised
    /\ ~\E p \in TenPatterns : Contains(arg, p)

\* C29: a question with one of the SQL/domain keywords in it is marked
\* relevant, and a question of at most three words with none of them is
\* marked non-relevant
C29_KeywordMeansRelevant ==
    fn = "_is_sql_related_query" =>
        LET has_keyword == \E kw \in sql_keywords : Contains(Lower(arg), kw)
        IN  /\ has_keyword => ret
            /\ (~has_keyword /\ WordCount(arg) <= 3) => ~ret

\* C24: when a request has returned a SQL result, the returned string is
\* the string that got the verdict and the sql of the last turn of the
\* store, last_sql is the returned string, and the question of that turn is
\* the trimmed question of the request
C24_ReturnedIsValidatedAndRecorded ==
    (pc = "Done" /\ IsSqlResult(result)) =>
        /\ verdict.is_valid
        /\ sql_query = result
        /\ history # <<>>
        /\ history[Len(history)] = Turn(Strip(user_input), result)
        /\ last_sql = result

\* C26: a request calls the oracle at most once: not before it has passed
\* AwaitingOracle, exactly once after it, and not again after an oracle
\* failure, an empty extraction, a clarification response or a rejection
C26_OracleCalledAtMostOnce ==
    /\ oracle_calls <= 1
    /\ pc \in {"Idle", "Filtering", "Sanitizing", "Prompting", "AwaitingOracle"} =>
           oracle_calls = 0
    /\ pc \in {"Extracting", "Validating", "Recording", "Done"} => oracle_calls = 1
    /\ outcome \in {"OracleFailure", "ExtractionFailure", "ClarificationNeeded",
                    "UnsafeOutput"} => oracle_calls = 1
    /\ outcome \in {"EmptyInput", "NotAQuery", "UnsafeInput"} => oracle_calls = 0

C26_Witness ==
    /\ pc = "Rejected"
    /\ outcome = "UnsafeOutput"
    /\ oracle_calls = 1

\* the position of a stage in the order of the stages
StageRank ==
    [s \in {"Idle", "Filtering", "Sanitizing", "Prompting", "AwaitingOracle",
            "Extracting", "Validating", "Recording", "Done", "Rejected", "Errored"} |->
        CASE s = "Idle" -> 0
          [] s = "Filtering" -> 1
          [] s = "Sanitizing" -> 2
          [] s = "Prompting" -> 3
          [] s = "AwaitingOracle" -> 4
          [] s = "Extracting" -> 5
          [] s = "Validating" -> 6
          [] s = "Recording" -> 7
          [] s = "Done" -> 8
          [] OTHER -> 9]

\* one step of a request: the stage moves forward, or the request has ended
\* and the session is idle again; a verdict is given only for an extracted
\* statement, and the store is written only under an ALLOW verdict
StageOrder ==
    /\ pc' # pc =>
           IF pc \in Terminal THEN pc' = "Idle" ELSE StageRank[pc'] > StageRank[pc]
    /\ (verdict' # verdict /\ pc' # "Idle") =>
           (StageRank[pc] >= StageRank["Extracting"] /\ sql_query # None)
    /\ (conversation_manager' # conversation_manager /\ pc # "Idle") =>
           (StageRank[pc] >= StageRank["Validating"] /\ verdict.is_valid)

\* C27: a request moves through the stages strictly forward, validation
\* comes after extraction and recording after validation, and a request
\* whose oracle call returns or raises ends in Done, Rejected or Errored
C27_StagesForwardAndTerminate ==
    /\ [][StageOrder]_vars
    /\ (pc # "Idle") ~> (pc \in Terminal)

C27_Witness ==
    /\ pc = "Done"
    /\ outcome = "Success"
    /\ requests = 2

\* C28: the prompt of a request has the context block exactly when
\* is_follow_up holds for the question against the store as it was before
\* the request and that store has turns; the block shows the last turns of
\* that store, which are turns of earlier successful requests, so a request
\* on an empty store has no context block
C28_ContextOnlyForFollowUp ==
    (pc = "AwaitingOracle" \/ oracle_calls = 1) =>
        LET before == store_before.history
            k == Min({3, Len(before)})
            shown == SubSeq(before, Len(before) - k + 1, Len(before))
        IN  /\ prompt.context # None <=>
                   (is_follow_up(store_before, Strip(user_input)) /\ before # <<>>)
            /\ prompt.context # None =>
                   prompt.context = Str("Previous conversation:")
                                    \o Concat([i \in 1..k |-> TurnBlock(i, shown[i])])
            /\ before = (IF outcome = "Success" THEN SubSeq(recorded, 1, Len(recorded) - 1)
                         ELSE recorded)
            /\ before = <<>> => prompt.context = None

C28_Witness ==
    /\ pc = "AwaitingOracle"
    /\ prompt.context # None

\* the store a session would have on its own: the turns of store that the
\* session recorded, in order, and the last of them as last_query and last_sql
OwnStore(store, owners, s) ==
    LET mine == {i \in 1..Len(store.history) : owners[i] = s}
        nth(k) == CHOOSE i \in mine : Cardinality({j \in mine : j <= i}) = k
        turns == [k \in 1..Cardinality(mine) |-> store.history[nth(k)]]
        last == IF turns = <<>> THEN None ELSE turns[Len(turns)].sql_query
    IN  [history |-> turns, last_query |-> last, last_sql |-> last,
         max_history |-> store.max_history]

\* C25: the is_follow_up result and the context block of a session's
\* request are those of the session's own turns, whatever other sessions
\* recorded, and a session's clear_conversation leaves the turns of the
\* other sessions in the store
C25_SessionsIsolated ==
    /\ (app.handler = "generate_sql"
        /\ outcome \notin {"None", "EmptyInput", "NotAQuery", "UnsafeInput"}) =>
           LET own == OwnStore(store_before, app.owners_before, app.session)
           IN  /\ app.follow_up = is_follow_up(own, user_input)
               /\ prompt = _build_prompt(own, user_input, is_follow_up(own, user_input))
    /\ app.handler = "clear_conversation" =>
           \A i \in 1..Len(store_before.history) :
               app.owners_before[i] # app.session =>
                   \E j \in 1..Len(history) : history[j] = store_before.history[i]

\* C30: when no thread is inside add_turn, the history has at most
\* max_history turns, last_sql is the sql of its last turn, and the last
\* max_history turns that were appended are all in it
C30_ConcurrentAddTurnSafe ==
    (\A i \in Threads : threads.t[i].pc = "idle") =>
        LET latest == LastN(recorded, conversation_manager.max_history)
        IN  /\ Len(history) <= conversation_manager.max_history
            /\ history # <<>> => last_sql = history[Len(history)].sql_query
            /\ \A k \in 1..Len(latest) : \E j \in 1..Len(history) : history[j] = latest[k]
====
